---- MODULE Spec2Model ----
(***************************************************************************)
(* Model of the scraping pipeline of LongRhasst/data_forecast:             *)
(*   src/src/scraping/tiki_data.py   TikiPlaywrightScraper                 *)
(*   src/src/scraping/data.py        ShopeePlaywrightScraper               *)
(*   src/src/scraping/batch_scraper.py  run_batch_scraping                 *)
(*                                                                         *)
(* The asyncio program is modelled at the granularity of its suspension    *)
(* points: one action is the code a coroutine runs between two awaits.     *)
(*                                                                         *)
(*   Spec         TikiPlaywrightScraper.scrape: discovery, the concurrent  *)
(*                enrichment tasks, the checkpoints                        *)
(*   SpecLive     Spec with weak fairness of the program's steps           *)
(*   SpecSession  SpecCancel at width 1, over the session files an earlier *)
(*                run can have left                                        *)
(*   SpecSearch   TikiPlaywrightScraper._search_products_api: the retry    *)
(*                loop of the structured discovery, then the search page   *)
(*   SpecReviews  the three review collectors, as functions of what the    *)
(*                source offers                                            *)
(*   SpecCancel   Spec, with scrape() cancelled during the enrichment      *)
(*   SpecShopee   ShopeePlaywrightScraper.scrape: discovery with its       *)
(*                challenge loop, the products one after the other         *)
(*   SpecShopeeLive  SpecShopee with weak fairness of the program's steps  *)
(*   SpecEnrich   _scrape_product_details run twice on one product         *)
(*   SpecBatch    run_batch_scraping: the loop over the keywords           *)
(***************************************************************************)
EXTENDS Integers, Sequences, FiniteSets, TLC

\* ------------------------------------------------------------------ bounds
MaxProducts == 5       \* max_products of the query, tasks one at a time
MaxWideProducts == 3   \* max_products of the query, max_concurrent above 1
MaxConcurrent == 2     \* largest max_concurrent tried
MaxFaults == 2         \* failing responses the environment gives in one run
MaxReviews == 41       \* largest max_reviews tried
MaxShopeePages == 3    \* review pages a Shopee product page offers at most
MaxShopeeProducts == 5 \* max_products of the Shopee query
MaxRuns == 2           \* times the enrichment is run on one product
MaxKeywords == 3       \* longest all_keywords of a batch
MaxBatchItems == 2     \* most products one scrape() of a batch returns

\* ------------------------------------------------------- program constants
SaveEvery == 5         \* tiki_data.py:174  len(results) % 5 == 0
max_retries == 3       \* tiki_data.py:228
ReviewPageSize == 20   \* tiki_data.py:503  'limit': 20
MaxReviewPages == 5    \* tiki_data.py:494  min(pages_needed, 5)
ShopeePageSize == 6    \* data.py:429       (self.max_reviews // 6) + 1
sh_max_retries == 3    \* data.py:238
sh_SaveEvery == 5      \* data.py:275       (idx + 1) % 5 == 0

VARIABLES
    \* ---- TikiPlaywrightScraper.scrape
    pc,              \* position of scrape(): "launch", "context", "discover",
                     \* "enrich", "done"
    browser,         \* the Firefox of this run: "none", "open", "closed"
    state_file,      \* self.state_file on disk: "absent", "valid" (a
                     \* storage state new_context can load) or "corrupt"
    discovery,       \* what _search_products did: ran, whether it was
                     \* called; api, the length of the
                     \* list _search_products_api returned; htmlTried,
                     \* whether the HTML search ran; html, the length of
                     \* its list; raised, whether its page.goto raised
    max_concurrent,  \* self.max_concurrent
    semaphore,       \* value of self.semaphore (free slots)
    products,        \* the candidate dicts, mutated in place by the tasks
    tpc,             \* position of each _scrape_product_with_semaphore task
    ret,             \* value each task returned: "pending", "product", "None"
    details,         \* per task, details in _scrape_product_details:
                     \* "pending", "details" (a dict) or "None"
    apiReviews,      \* per task, reviews in _scrape_product_details:
                     \* "pending", "reviews" (a non-empty list) or "[]"
    fellBack,        \* tasks whose control reached the HTML fallback block
    detailReqs,      \* per task: requests issued by _get_product_details_api
    doneQueue,       \* finished tasks in completion order (as_completed)
    faults,          \* failing responses the environment has given so far
    results,         \* len(results) in scrape()
    products_data,   \* self.products_data
    output_file,     \* content of self.output_file: the JSON texts written
    returned,        \* what scrape() returned: kind "running" (not yet),
                     \* "None" or "list" with its value
    \* ---- TikiPlaywrightScraper._search_products_api
    apc,             \* "idle", "request", "awaiting", "sleep", "returned",
                     \* "raised"
    attempt,         \* the loop variable of "for attempt in range(max_retries)"
    requests,        \* session.get calls issued
    responses,       \* what each request met, in order
    sleeps,          \* the asyncio.sleep delays taken, in order
    found,           \* len of the list returned, "pending" before
    page_items,      \* the search page: whether it was loaded ("none"
                     \* before), the product items it showed and the len of
                     \* the list _search_products made of them
    \* ---- the review collectors
    max_reviews,     \* self.max_reviews
    rv_path,         \* the collector run: "none", "api", "html", "shopee"
    rv_in,           \* what the source offers to it
    rv_done,         \* whether the collector has returned
    rv_out,          \* the list it returned
    \* ---- ShopeePlaywrightScraper.scrape
    sh_pc,           \* position of scrape(): "idle", "search", "while",
                     \* "input", "research", "after", "item", "reload",
                     \* "extract", "done"
    sh_where,        \* who called _handle_login: "discovery" or "item"
    sh_blocked,      \* whether page.url is a verification or login URL
    sh_products,     \* len(products) in scrape()
    retry_count,     \* retry_count in scrape()
    sh_idx,          \* idx + 1 of the product the loop is at
    sh_prompts,      \* _handle_login calls made for that product
    sh_products_data, \* self.products_data
    sh_output_file,  \* content of self.output_file
    sh_checked,      \* whether _check_login_required has looked at the
                     \* page since the last navigation
    sh_unsaved,      \* whether a challenge was passed (the page loaded
                     \* after the operator's Enter is clear) and
                     \* _save_cookies has not saved the session since
    sh_returned,     \* what scrape() returned: kind "running" (not yet),
                     \* "None", "raised" (an exception left it) or "list"
                     \* with its value
    \* ---- _scrape_product_details run twice on one product
    e_product,       \* the product dict
    e_source,        \* what the API and the page answer, at every call
    e_runs,          \* how often _scrape_product_details has run
    e_first,         \* the product dict as the first run left it
    \* ---- run_batch_scraping
    all_keywords,    \* all_keywords
    b_idx,           \* idx of the loop over all_keywords
    b_outcomes,      \* what scrape() did for each keyword tried, in order
    all_products,    \* all_products
    b_returned       \* what run_batch_scraping returned

scrapeVars == <<pc, browser, state_file, discovery, max_concurrent, semaphore, products, tpc, ret,
                details, apiReviews, fellBack, detailReqs, doneQueue, faults, results,
                products_data, output_file, returned>>
searchVars == <<apc, attempt, requests, responses, sleeps, found, page_items>>
reviewVars == <<max_reviews, rv_path, rv_in, rv_done, rv_out>>
shopeeVars == <<sh_pc, sh_where, sh_blocked, sh_products, retry_count, sh_idx,
                sh_prompts, sh_products_data, sh_output_file, sh_checked,
                sh_unsaved, sh_returned>>
enrichVars == <<e_product, e_source, e_runs, e_first>>
batchVars == <<all_keywords, b_idx, b_outcomes, all_products, b_returned>>
vars == <<scrapeVars, searchVars, reviewVars, shopeeVars, enrichVars,
          batchVars>>

Tasks == 1..Len(products)

\* A candidate as discovery builds it.  id: whether product.get('id') is
\* truthy.  detail / reviews: where the enrichment fields came from.
Candidate(i, hasId) ==
    [idx |-> i, id |-> hasId, detail |-> "listing", reviews |-> "unset"]

\* _search_products not called yet.
NoDiscovery ==
    [ran |-> FALSE, api |-> 0, htmlTried |-> FALSE, html |-> 0,
     raised |-> FALSE]

\* The scraper as __init__ leaves it, before scrape() is called.
ScrapeIdle ==
    /\ pc = "launch"
    /\ browser = "none"
    /\ discovery = NoDiscovery
    /\ semaphore = 0                  \* self.semaphore = None
    /\ products = << >>
    /\ tpc = << >>
    /\ ret = << >>
    /\ details = << >>
    /\ apiReviews = << >>
    /\ fellBack = {}
    /\ detailReqs = << >>
    /\ doneQueue = << >>
    /\ faults = 0
    /\ results = 0
    /\ products_data = << >>
    /\ output_file = << >>
    /\ returned = [kind |-> "running", value |-> << >>]

\* _search_products_api not called.
SearchIdle ==
    /\ apc = "idle"
    /\ attempt = 0
    /\ requests = 0
    /\ responses = << >>
    /\ sleeps = << >>
    /\ found = "pending"
    /\ page_items = [kind |-> "none", items |-> 0, found |-> 0]

\* No review collector is run.
ReviewsIdle ==
    /\ max_reviews = 0
    /\ rv_path = "none"
    /\ rv_in = << >>
    /\ rv_done = FALSE
    /\ rv_out = << >>

\* The Shopee scraper as __init__ leaves it (data.py:29-46).
ShopeeIdle ==
    /\ sh_pc = "idle"
    /\ sh_where = "discovery"
    /\ sh_blocked = FALSE
    /\ sh_products = 0
    /\ retry_count = 0
    /\ sh_idx = 0
    /\ sh_prompts = 0
    /\ sh_products_data = << >>
    /\ sh_output_file = << >>
    /\ sh_checked = FALSE
    /\ sh_unsaved = FALSE
    /\ sh_returned = [kind |-> "running", value |-> << >>]

\* What self.state_file can be when scrape() starts.
SessionFiles == {"absent", "valid", "corrupt"}

\* "d.update(e)": the keys of e, with e's values, over those of d.
Update(d, e) == e @@ d

\* The candidate dict as discovery builds it: the API listing carries id,
\* brand and specifications (lines 243-258), the HTML listing does not
\* (lines 306-323).
Listing(hasId) ==
    IF hasId
      THEN [id |-> "101", name |-> "n", brand |-> "listing",
            specifications |-> "listing"]
      ELSE [name |-> "n"]

\* No enrichment is run.
EnrichIdle ==
    /\ e_product = Listing(TRUE)
    /\ e_source = [detailsOk |-> TRUE, data |-> "d1", reviews |-> << >>,
                   pageRaises |-> FALSE, descFound |-> FALSE,
                   pageReviews |-> << >>]
    /\ e_runs = 0
    /\ e_first = Listing(TRUE)

\* No batch is run.
BatchIdle ==
    /\ all_keywords = << >>
    /\ b_idx = 0
    /\ b_outcomes = << >>
    /\ all_products = << >>
    /\ b_returned = [kind |-> "running", value |-> << >>]

\* A scraper of any width tried, with the session an earlier run saved.
Init ==
    /\ max_concurrent \in 1..MaxConcurrent
    /\ state_file = "valid"
    /\ ScrapeIdle
    /\ SearchIdle
    /\ ReviewsIdle
    /\ ShopeeIdle
    /\ EnrichIdle
    /\ BatchIdle

\* Incremental checkpoints: only the items after those already written.
SaveDataIncrement(file, data) ==
    Append(file, SubSeq(data, Len(file) * SaveEvery + 1, Len(data)))

\* _save_data: open(self.output_file, 'a') then json.dump(self.products_data)
SaveData(file, data) == Append(file, data)

\* "self.semaphore = asyncio.Semaphore(self.max_concurrent - 1)"
NewSemaphoreOneShort(n) == n - 1

\* Line 95: "self.semaphore = asyncio.Semaphore(self.max_concurrent)"
NewSemaphore(n) == n

\* Leaving "async with async_playwright()" without closing the browser's
\* process.
PlaywrightExitLeavesBrowser(b) == b

\* Leaving "async with async_playwright() as p" (line 97): Playwright stops
\* its driver, and the driver ends the browsers it launched.
PlaywrightExit(b) == IF b = "open" THEN "closed" ELSE b

\* "await browser.close()"
BrowserClose(b) == "closed"

\* "finally: await browser.close()", lines 188-189, then the exit of
\* "async with async_playwright()".
Finally(b) == PlaywrightExit(BrowserClose(b))

\* _save_cookies, lines 50-56: context.storage_state(path=self.state_file)
\* writes the file; when it raises, the exception is logged and the file is
\* as it was.
SaveCookies(file, ok) == IF ok THEN "valid" ELSE file

\* scrape(), lines 95-109: the semaphore is created, Playwright is started
\* and Firefox is launched; when the launch raises, the exception is logged
\* and raised again.
Launch(ok) ==
    /\ pc = "launch"
    /\ semaphore' = NewSemaphore(max_concurrent)
    /\ IF ok
         THEN /\ browser' = "open"
              /\ pc' = "context"
              /\ UNCHANGED returned
         ELSE /\ browser' = PlaywrightExit(browser)
              /\ pc' = "done"
              /\ returned' = [kind |-> "raised", value |-> << >>]
    /\ UNCHANGED <<max_concurrent, state_file, discovery, products, tpc, ret,
                   details, apiReviews, fellBack, detailReqs, doneQueue,
                   faults, results, products_data, output_file>>
    /\ UNCHANGED <<searchVars, reviewVars, shopeeVars, enrichVars, batchVars>>

\* scrape(), lines 111-139: _load_cookies tells whether the state file
\* exists; new_context is given the file when it does, and raises when the
\* file is not a storage state; add_init_script and new_page follow.  None
\* of these is inside the try of line 141: an exception here leaves scrape()
\* through the exit of "async with async_playwright()" only.
NewContext(ok) ==
    /\ pc = "context"
    /\ state_file = "corrupt" => ~ok
    /\ IF ok
         THEN /\ pc' = "discover"
              /\ UNCHANGED <<browser, returned>>
         ELSE /\ browser' = PlaywrightExit(browser)
              /\ pc' = "done"
              /\ returned' = [kind |-> "raised", value |-> << >>]
    /\ UNCHANGED <<max_concurrent, state_file, discovery, semaphore, products,
                   tpc, ret, details, apiReviews, fellBack, detailReqs,
                   doneQueue, faults, results, products_data, output_file>>
    /\ UNCHANGED <<searchVars, reviewVars, shopeeVars, enrichVars, batchVars>>

\* _search_products that never falls back to the HTML search.
NeverHtmlSearch(n) == FALSE

\* _search_products, lines 285-288: "if products: return products", else the
\* HTML search.  n is the length of the list _search_products_api returned;
\* it returns [] both for an empty result and after failed requests.
NeedsHtmlSearch(n) == n = 0

\* scrape(), lines 141-162: discovery, then one task per product.  api: the
\* length of the API's list (every candidate has an id); html: the number of
\* items with a link on the HTML search page (no candidate has an id);
\* raises: page.goto of the HTML search raised twice (lines 294-297), which
\* leaves scrape() through its finally; saveOk: whether _save_cookies at
\* line 153 could write the session.
Discover(api, html, raises, saveOk) ==
    LET tried == NeedsHtmlSearch(api)
        n == IF tried THEN html ELSE api
    IN
    /\ pc = "discover"
    /\ ~tried => (html = 0 /\ ~raises)
    /\ raises => html = 0
    /\ discovery' = [ran |-> TRUE, api |-> api, htmlTried |-> tried,
                     html |-> html, raised |-> raises]
    /\ products' = [i \in 1..n |-> Candidate(i, ~tried)]
    /\ tpc' = [i \in 1..n |-> "wait"]
    /\ ret' = [i \in 1..n |-> "pending"]
    /\ details' = [i \in 1..n |-> "pending"]
    /\ apiReviews' = [i \in 1..n |-> "pending"]
    /\ detailReqs' = [i \in 1..n |-> 0]
    /\ IF raises
         THEN /\ pc' = "done"
              /\ returned' = [kind |-> "raised", value |-> << >>]
              /\ browser' = Finally(browser)
              /\ UNCHANGED state_file
         ELSE IF n = 0
         THEN /\ pc' = "done"         \* "if not products: return"
              /\ returned' = [kind |-> "None", value |-> << >>]
              /\ browser' = Finally(browser)
              /\ UNCHANGED state_file
         ELSE /\ pc' = "enrich"
              /\ state_file' = SaveCookies(state_file, saveOk)
              /\ UNCHANGED <<returned, browser>>
    /\ UNCHANGED <<max_concurrent, semaphore, fellBack, doneQueue, faults,
                   results, products_data, output_file>>
    /\ UNCHANGED <<searchVars, reviewVars, shopeeVars, enrichVars, batchVars>>

\* A semaphore that admits everyone.
AcquireNoLimit(t) ==
    /\ pc = "enrich"
    /\ tpc[t] = "wait"
    /\ \A u \in 1..(t - 1) : tpc[u] # "wait"
    /\ semaphore' = semaphore - 1
    /\ tpc' = [tpc EXCEPT ![t] = "delay"]
    /\ UNCHANGED <<pc, max_concurrent, browser, state_file, discovery, products, ret, details, apiReviews, fellBack,
                   detailReqs, doneQueue, faults, results, products_data,
                   output_file, returned>>
    /\ UNCHANGED <<searchVars, reviewVars, shopeeVars, enrichVars, batchVars>>

\* "async with self.semaphore" entry: asyncio.Semaphore admits a task while
\* its value is positive and serves the tasks in the order they asked.  The
\* tasks are numbered in the order the event loop first runs them.  The
\* admitted task then sleeps in _human_like_delay, holding its slot.
Acquire(t) ==
    /\ pc = "enrich"
    /\ tpc[t] = "wait"
    /\ \A u \in 1..(t - 1) : tpc[u] # "wait"
    /\ semaphore > 0
    /\ semaphore' = semaphore - 1
    /\ tpc' = [tpc EXCEPT ![t] = "delay"]
    /\ UNCHANGED <<pc, max_concurrent, browser, state_file, discovery, products, ret, details, apiReviews, fellBack,
                   detailReqs, doneQueue, faults, results, products_data,
                   output_file, returned>>
    /\ UNCHANGED <<searchVars, reviewVars, shopeeVars, enrichVars, batchVars>>

\* A task that keeps its slot when it ends on an exception.
TaskReturnKeepingSlot(t, v) ==
    /\ semaphore' = IF v = "None" THEN semaphore ELSE semaphore + 1
    /\ ret' = [ret EXCEPT ![t] = v]
    /\ doneQueue' = Append(doneQueue, t)

\* The task leaves "async with self.semaphore" with value v ("product" or
\* "None"): the slot is released and as_completed queues the finished task.
TaskReturn(t, v) ==
    /\ semaphore' = semaphore + 1
    /\ ret' = [ret EXCEPT ![t] = v]
    /\ doneQueue' = Append(doneQueue, t)

\* Lines 437-441: the fallback block.  Its first statement slices
\* product.get('name', 'Unknown')[:50]; a product whose API name is null
\* raises TypeError there, which the wrapper turns into "return None".
\* Otherwise the task awaits page.goto on the shared page.
Fallback(t, nameIsNone) ==
    /\ fellBack' = fellBack \cup {t}
    /\ IF nameIsNone
         THEN /\ tpc' = [tpc EXCEPT ![t] = "finished"]
              /\ TaskReturn(t, "None")
         ELSE /\ tpc' = [tpc EXCEPT ![t] = "page"]
              /\ UNCHANGED <<semaphore, ret, doneQueue>>

\* Whether _scrape_product_details takes the API branch: "if product_id:"
UsesApi(p) == p.id

\* After the delay: _scrape_product_details up to its first await.
StartEnrich(t) ==
    /\ pc = "enrich"
    /\ tpc[t] = "delay"
    /\ IF UsesApi(products[t])
         THEN /\ tpc' = [tpc EXCEPT ![t] = "api"]
              /\ detailReqs' = [detailReqs EXCEPT ![t] = @ + 1]
              /\ UNCHANGED <<semaphore, ret, doneQueue, fellBack>>
         ELSE /\ Fallback(t, FALSE)   \* HTML candidates carry a str name
              /\ UNCHANGED detailReqs
    /\ UNCHANGED <<pc, max_concurrent, browser, state_file, discovery, products, details, apiReviews, faults, results,
                   products_data, output_file, returned>>
    /\ UNCHANGED <<searchVars, reviewVars, shopeeVars, enrichVars, batchVars>>

\* "if details and reviews:"
DetailsAndReviewsAccepted(d, r) == d = "details" /\ r = "reviews"

\* Whether the API result is merged and the task returns: "if details:"
DetailsAccepted(d, r) == d = "details"

\* asyncio.gather(details_task, reviews_task) returned.  detailsOk: the
\* detail request gave status 200 and a body; reviewsOk: a non-empty list;
\* nameIsNone: the product's name is null (read only by the fallback block).
ApiDone(t, detailsOk, reviewsOk, nameIsNone) ==
    LET d == IF detailsOk THEN "details" ELSE "None"
        r == IF reviewsOk THEN "reviews" ELSE "[]"
    IN
    /\ pc = "enrich"
    /\ tpc[t] = "api"
    /\ faults' = faults + (IF detailsOk THEN 0 ELSE 1)
                        + (IF reviewsOk THEN 0 ELSE 1)
                        + (IF nameIsNone THEN 1 ELSE 0)
    /\ faults' <= MaxFaults
    /\ details' = [details EXCEPT ![t] = d]
    /\ apiReviews' = [apiReviews EXCEPT ![t] = r]
    /\ IF DetailsAccepted(d, r)
         THEN /\ ~nameIsNone
              /\ products' = [products EXCEPT ![t].detail = "api",
                                ![t].reviews = IF reviewsOk THEN "api" ELSE "empty"]
              /\ tpc' = [tpc EXCEPT ![t] = "finished"]
              /\ TaskReturn(t, "product")
              /\ UNCHANGED fellBack
         ELSE /\ Fallback(t, nameIsNone)
              /\ UNCHANGED products
    /\ UNCHANGED <<pc, max_concurrent, browser, state_file, discovery, detailReqs, results, products_data,
                   output_file, returned>>
    /\ UNCHANGED <<searchVars, reviewVars, shopeeVars, enrichVars, batchVars>>

\* "product['reviews'] = reviews or await self._scrape_reviews(page)"
PageReviewsKeepingApi(r, ok) ==
    IF r = "reviews" THEN "api" ELSE IF ok THEN "html" ELSE "empty"

\* The reviews field the fallback block leaves: line 472 assigns what
\* _scrape_reviews(page) returned, the handler at line 478 assigns [].  r is
\* the reviews local of the gather at line 415, which the block never reads.
PageReviews(r, ok) == IF ok THEN "html" ELSE "empty"

\* Lines 441-478: the task drove the shared page to the end of the
\* extraction (ok) or an exception was caught by the handler at line 474.
PageDone(t, ok) ==
    /\ pc = "enrich"
    /\ tpc[t] = "page"
    /\ faults' = faults + (IF ok THEN 0 ELSE 1)
    /\ faults' <= MaxFaults
    /\ products' = [products EXCEPT
                      ![t].detail = IF ok THEN "html" ELSE "empty",
                      ![t].reviews = PageReviews(apiReviews[t], ok)]
    /\ tpc' = [tpc EXCEPT ![t] = "finished"]
    /\ TaskReturn(t, "product")
    /\ UNCHANGED <<pc, max_concurrent, browser, state_file, discovery, details, apiReviews, fellBack, detailReqs, results,
                   products_data, output_file, returned>>
    /\ UNCHANGED <<searchVars, reviewVars, shopeeVars, enrichVars, batchVars>>

\* One iteration of "for coro in as_completed(tasks)", lines 166-179.
\* saveOk: whether _save_cookies at line 176 could write the session.
Consume(saveOk) ==
    /\ pc = "enrich"
    /\ doneQueue # << >>
    /\ LET t == Head(doneQueue)
           kept == ret[t] = "product"            \* "if result:"
           data == IF kept THEN Append(products_data, products[t])
                           ELSE products_data
           n == IF kept THEN results + 1 ELSE results
       IN  /\ doneQueue' = Tail(doneQueue)
           /\ tpc' = [tpc EXCEPT ![t] = "consumed"]
           /\ results' = n
           /\ products_data' = data
           /\ output_file' = IF kept /\ n % SaveEvery = 0
                               THEN SaveData(output_file, data)
                               ELSE output_file
           /\ state_file' = IF kept /\ n % SaveEvery = 0
                              THEN SaveCookies(state_file, saveOk)
                              ELSE state_file
    /\ UNCHANGED <<pc, max_concurrent, browser, discovery, semaphore, products, ret, details, apiReviews,
                   fellBack, detailReqs, faults, returned>>
    /\ UNCHANGED <<searchVars, reviewVars, shopeeVars, enrichVars, batchVars>>

\* Lines 181-189: after the loop, the last save, the return and the finally.
Finish ==
    /\ pc = "enrich"
    /\ \A t \in Tasks : tpc[t] = "consumed"
    /\ output_file' = SaveData(output_file, products_data)
    /\ returned' = [kind |-> "list", value |-> products_data]
    /\ browser' = Finally(browser)
    /\ pc' = "done"
    /\ UNCHANGED <<max_concurrent, state_file, discovery, semaphore, products, tpc, ret, details, apiReviews,
                   fellBack, detailReqs, doneQueue, faults, results,
                   products_data>>
    /\ UNCHANGED <<searchVars, reviewVars, shopeeVars, enrichVars, batchVars>>

\* How many candidates a search can give: items[:self.max_products] and
\* product_items[:self.max_products] cut both lists at max_products.
Candidates ==
    0..(IF max_concurrent = 1 THEN MaxProducts ELSE MaxWideProducts)

Next ==
    \/ \E ok \in BOOLEAN : Launch(ok)
    \/ \E ok \in BOOLEAN : NewContext(ok)
    \/ \E api, html \in Candidates, raises, saveOk \in BOOLEAN :
          Discover(api, html, raises, saveOk)
    \/ \E t \in Tasks : Acquire(t)
    \/ \E t \in Tasks : StartEnrich(t)
    \/ \E t \in Tasks, d, r, nn \in BOOLEAN : ApiDone(t, d, r, nn)
    \/ \E t \in Tasks, ok \in BOOLEAN : PageDone(t, ok)
    \/ \E saveOk \in BOOLEAN : Consume(saveOk)
    \/ Finish

Spec == Init /\ [][Next]_vars

\* scrape() is cancelled while it awaits in the as_completed loop (lines
\* 166-176): asyncio.CancelledError and KeyboardInterrupt are not Exceptions,
\* so "except Exception" at line 177 lets them pass, the finally at line 188
\* closes the browser and the exception leaves scrape().
Cancel ==
    /\ pc = "enrich"
    /\ pc' = "done"
    /\ returned' = [kind |-> "cancelled", value |-> << >>]
    /\ browser' = Finally(browser)
    /\ UNCHANGED <<max_concurrent, state_file, discovery, semaphore, products, tpc, ret,
                   details, apiReviews, fellBack, detailReqs, doneQueue,
                   faults, results, products_data, output_file>>
    /\ UNCHANGED <<searchVars, reviewVars, shopeeVars, enrichVars, batchVars>>

\* The tasks cancelled keep their slots.
CancelledExitKeepingSlots(sem, held) == sem

\* Lines 194-195, "async with self.semaphore:", left by CancelledError in
\* each of the "held" tasks that are inside it: __aexit__ releases the slot.
CancelledExit(sem, held) == sem + held

\* After scrape() was cancelled the event loop cancels the tasks that are
\* left (asyncio.run does at its end): a task inside "async with
\* self.semaphore" leaves it, a task waiting for its slot never got one.
Teardown ==
    /\ pc = "done"
    /\ returned.kind = "cancelled"
    /\ \E t \in Tasks : tpc[t] \in {"wait", "delay", "api", "page"}
    /\ tpc' = [t \in Tasks |->
                 IF tpc[t] \in {"wait", "delay", "api", "page"}
                   THEN "cancelled" ELSE tpc[t]]
    /\ semaphore' = CancelledExit(semaphore,
           Cardinality({t \in Tasks : tpc[t] \in {"delay", "api", "page"}}))
    /\ UNCHANGED <<pc, returned, browser, max_concurrent, state_file,
                   discovery, products, ret, details, apiReviews, fellBack,
                   detailReqs, doneQueue, faults, results, products_data,
                   output_file>>
    /\ UNCHANGED <<searchVars, reviewVars, shopeeVars, enrichVars, batchVars>>

NextCancel ==
    \/ Next
    \/ Cancel
    \/ Teardown

SpecCancel == Init /\ [][NextCancel]_vars

\* One scraper, whatever the session file an earlier run left: none, a
\* readable one, or one that is not a storage state (cut short, not JSON).
InitSession ==
    /\ max_concurrent = 1
    /\ state_file \in SessionFiles
    /\ ScrapeIdle
    /\ SearchIdle
    /\ ReviewsIdle
    /\ ShopeeIdle
    /\ EnrichIdle
    /\ BatchIdle

SpecSession == InitSession /\ [][NextCancel]_vars

\* The event loop runs a coroutine that can continue, and every request and
\* page operation of the program carries a timeout (30 s for aiohttp, 60 s
\* for page.goto), so a step that can be taken is taken.
SpecLive == Spec /\ WF_vars(Next)

\* ------------------------------------ _search_products_api: the retry loop

\* What one session.get of the search can meet: a 200 with a JSON body of
\* "items" products, a 200 whose body is not the expected JSON, another
\* status, a timeout or a connection error.
FailureKinds == {"s5xx", "s429", "s4xx", "timeout", "connerr", "malformed"}
SearchResponses ==
    [kind : {"ok"}, items : 0..(MaxProducts + 1)]
        \cup [kind : FailureKinds, items : {0}]

Min(a, b) == IF a <= b THEN a ELSE b

\* "for attempt in range(max_retries + 1)"
LoopContinuesOnceMore(a) == a <= max_retries

\* "for attempt in range(max_retries)"
LoopContinues(a) == a < max_retries

\* "await asyncio.sleep(2 ** (attempt + 1))"
BackoffDoubled(a) == 2 ^ (a + 1)

\* "await asyncio.sleep(2 ** attempt)"
Backoff(a) == 2 ^ a

\* "if attempt < max_retries - 1:"
SleepsBeforeRetry(a) == a < max_retries - 1

\* "for item in items:", the whole answer.
ParsedAll(items) == items

\* The length of the slice "items[:self.max_products]" of line 243 and
\* "product_items[:self.max_products]" of line 306.
Parsed(items) == Min(items, MaxProducts)

\* _search_products_api is called.
SearchCall ==
    /\ apc = "idle"
    /\ apc' = "request"
    /\ UNCHANGED <<attempt, requests, responses, sleeps, found>>
    /\ UNCHANGED page_items
    /\ UNCHANGED <<scrapeVars, reviewVars, shopeeVars, enrichVars, batchVars>>

\* The loop head and the body up to "session.get(...)".
SendRequest ==
    /\ apc = "request"
    /\ LoopContinues(attempt)
    /\ requests' = requests + 1
    /\ apc' = "awaiting"
    /\ UNCHANGED <<attempt, responses, sleeps, found>>
    /\ UNCHANGED page_items
    /\ UNCHANGED <<scrapeVars, reviewVars, shopeeVars, enrichVars, batchVars>>

\* The loop is exhausted: "return products" at line 280, an empty list.
SearchExhausted ==
    /\ apc = "request"
    /\ ~LoopContinues(attempt)
    /\ found' = 0
    /\ apc' = "returned"
    /\ UNCHANGED <<attempt, requests, responses, sleeps>>
    /\ UNCHANGED page_items
    /\ UNCHANGED <<scrapeVars, reviewVars, shopeeVars, enrichVars, batchVars>>

\* The outcomes that are exceptions raised inside the try of line 230: a
\* timeout, a connection error, a body response.json() cannot parse.  The
\* other failures are statuses, handled by the else of line 268.
Raises(kind) == kind \in {"timeout", "connerr", "malformed"}

\* Only "except asyncio.TimeoutError:"
CaughtTimeoutOnly(kind) == kind = "timeout"

\* Lines 271-274: "except asyncio.TimeoutError" and "except Exception" catch
\* whatever the try raises.
Caught(kind) == TRUE

\* The request ends with resp.  Status 200 with a JSON body returns at once;
\* every other outcome is logged and falls to the sleep before the retry.
Receive(resp) ==
    /\ apc = "awaiting"
    /\ responses' = Append(responses, resp)
    /\ IF resp.kind = "ok"
         THEN /\ found' = Parsed(resp.items)
              /\ apc' = "returned"
              /\ UNCHANGED <<attempt, sleeps>>
         ELSE IF Raises(resp.kind) /\ ~Caught(resp.kind)
         THEN /\ apc' = "raised"      \* the exception leaves the function
              /\ UNCHANGED <<attempt, sleeps, found>>
         ELSE IF SleepsBeforeRetry(attempt)
                THEN /\ sleeps' = Append(sleeps, Backoff(attempt))
                     /\ apc' = "sleep"
                     /\ UNCHANGED <<attempt, found>>
                ELSE /\ attempt' = attempt + 1
                     /\ apc' = "request"
                     /\ UNCHANGED <<sleeps, found>>
    /\ UNCHANGED requests
    /\ UNCHANGED page_items
    /\ UNCHANGED <<scrapeVars, reviewVars, shopeeVars, enrichVars, batchVars>>

\* asyncio.sleep is over: the next iteration of the loop.
WakeUp ==
    /\ apc = "sleep"
    /\ attempt' = attempt + 1
    /\ apc' = "request"
    /\ UNCHANGED <<requests, responses, sleeps, found>>
    /\ UNCHANGED page_items
    /\ UNCHANGED <<scrapeVars, reviewVars, shopeeVars, enrichVars, batchVars>>

\* _search_products, lines 286-334, after the API gave nothing: the search
\* page is loaded and shows "cards" product items, "unlinked" of the ones
\* looked at without a link; or the second page.goto raises.
HtmlSearch(cards, unlinked, raises) ==
    /\ apc = "returned"
    /\ found = 0
    /\ page_items.kind = "none"
    /\ unlinked <= Parsed(cards)
    /\ raises => (cards = 0 /\ unlinked = 0)
    /\ page_items' = [kind |-> IF raises THEN "raised" ELSE "returned",
                      items |-> cards,
                      found |-> Parsed(cards) - unlinked]
    /\ UNCHANGED <<apc, attempt, requests, responses, sleeps, found>>
    /\ UNCHANGED <<scrapeVars, reviewVars, shopeeVars, enrichVars, batchVars>>

NextSearch ==
    \/ SearchCall
    \/ SendRequest
    \/ SearchExhausted
    \/ \E resp \in SearchResponses : Receive(resp)
    \/ WakeUp
    \/ \E cards, unlinked \in 0..(MaxProducts + 1), raises \in BOOLEAN :
          HtmlSearch(cards, unlinked, raises)

SpecSearch == Init /\ [][NextSearch]_vars

\* ---------------------------------------------------- the review collectors

\* The items of one page of reviews: TRUE for an item the parser accepts,
\* FALSE for one whose parsing raises (the loop logs it and continues).
Items(n, firstBad) == [i \in 1..n |-> ~(firstBad /\ i = 1)]

\* "if len(reviews) > self.max_reviews: break"
FullLate(reviews, m) == Len(reviews) > m

\* "if len(reviews) >= self.max_reviews: break"  (also review_count >= ...)
Full(reviews, m) == Len(reviews) >= m

\* The per-item loop of a page: items from index i on are appended to
\* reviews as <<page, index>> until the list is full.
RECURSIVE TakeUntilFull(_, _, _, _, _)
TakeUntilFull(reviews, items, p, i, m) ==
    IF i > Len(items) \/ Full(reviews, m)
      THEN reviews
      ELSE TakeUntilFull(IF items[i] THEN Append(reviews, <<p, i>>) ELSE reviews,
                         items, p, i + 1, m)

\* pages_needed of _get_reviews_api, lines 493-494.
PagesNeeded(m) ==
    Min((m + ReviewPageSize - 1) \div ReviewPageSize, MaxReviewPages)

\* _get_reviews_api, lines 498-542: "for response in responses".  A page
\* whose request raised or whose status is not 200 is skipped; a body that
\* is not JSON raises into the outer handler, which returns what was
\* collected.
RECURSIVE MultiPage(_, _, _, _)
MultiPage(reviews, pages, p, m) ==
    IF p > Len(pages) THEN reviews
    ELSE IF pages[p].kind \in {"exc", "status"}
      THEN MultiPage(reviews, pages, p + 1, m)
    ELSE IF pages[p].kind = "badjson" THEN reviews
    ELSE MultiPage(TakeUntilFull(reviews, pages[p].items, p, 1, m),
                   pages, p + 1, m)

\* The items a list keeps of those parsed: "for x in review_data[:max]"
\* with the unparsable ones dropped.
RECURSIVE ParseAll(_, _, _, _)
ParseAll(reviews, items, p, i) ==
    IF i > Len(items) THEN reviews
    ELSE ParseAll(IF items[i] THEN Append(reviews, <<p, i>>) ELSE reviews,
                  items, p, i + 1)

\* _get_reviews_api, lines 543-576: the single request.
SinglePage(page, m) ==
    IF page.kind = "ok"
      THEN ParseAll(<< >>, SubSeq(page.items, 1, Min(m, Len(page.items))), 1, 1)
      ELSE << >>

\* _get_reviews_api
GetReviewsApi(m, pages) ==
    IF PagesNeeded(m) > 1 THEN MultiPage(<< >>, pages, 1, m)
                          ELSE SinglePage(pages[1], m)

\* TikiPlaywrightScraper._scrape_reviews: nothing when the review list does
\* not show up, else the items of the page until the list is full.
ScrapeReviewsTiki(m, in) ==
    IF in.listed THEN TakeUntilFull(<< >>, in.items, 1, 1, m) ELSE << >>

\* ShopeePlaywrightScraper._scrape_reviews, lines 431-502: the pagination
\* loop.  pages are the item lists the product page shows one after the
\* other; the next button works while another page exists.
RECURSIVE ShopeeLoop(_, _, _, _)
ShopeeLoop(reviews, pages, page_num, m) ==
    IF ~(Len(reviews) < m /\ page_num <= (m \div ShopeePageSize) + 1)
      THEN reviews
      ELSE LET got == TakeUntilFull(reviews, pages[page_num], page_num, 1, m)
           IN  IF Len(got) < m /\ page_num < Len(pages)
                 THEN ShopeeLoop(got, pages, page_num + 1, m)
                 ELSE got

\* ShopeePlaywrightScraper._scrape_reviews
ScrapeReviewsShopee(m, in) ==
    IF in.listed THEN ShopeeLoop(<< >>, in.pages, 1, m) ELSE << >>

\* What the review API can answer for one page.
ApiPages ==
    [kind : {"status", "exc", "badjson"}, items : {<< >>}]
      \cup {[kind |-> "ok", items |-> Items(n, b)] :
              n \in {0, 1, ReviewPageSize, ReviewPageSize + 1}, b \in BOOLEAN}

\* The sequences of length 1..n over S.
SeqsUpTo(S, n) == UNION {[1..k -> S] : k \in 1..n}

\* What a source may offer to each collector, for max_reviews = m.
ReviewInputs(path, m) ==
    IF path = "api"
      THEN [1..(IF PagesNeeded(m) > 1 THEN PagesNeeded(m) ELSE 1) -> ApiPages]
    ELSE IF path = "html"
      THEN [listed : BOOLEAN,
            items : {Items(n, b) : n \in {0, 1, m, m + 1}, b \in BOOLEAN}]
    ELSE [listed : BOOLEAN,
          pages : SeqsUpTo({Items(n, FALSE) :
                              n \in {0, ShopeePageSize, m + 1}},
                           MaxShopeePages)]

InitReviews ==
    /\ max_concurrent = 1
    /\ state_file = "valid"
    /\ ScrapeIdle
    /\ SearchIdle
    /\ ShopeeIdle
    /\ EnrichIdle
    /\ BatchIdle
    /\ max_reviews \in 0..MaxReviews
    /\ rv_path \in {"api", "html", "shopee"}
    /\ rv_in \in ReviewInputs(rv_path, max_reviews)
    /\ rv_done = FALSE
    /\ rv_out = << >>

RunGetReviewsApi ==
    /\ rv_path = "api" /\ ~rv_done
    /\ rv_out' = GetReviewsApi(max_reviews, rv_in)
    /\ rv_done' = TRUE
    /\ UNCHANGED <<max_reviews, rv_path, rv_in>>
    /\ UNCHANGED <<scrapeVars, searchVars, shopeeVars, enrichVars, batchVars>>

RunScrapeReviewsTiki ==
    /\ rv_path = "html" /\ ~rv_done
    /\ rv_out' = ScrapeReviewsTiki(max_reviews, rv_in)
    /\ rv_done' = TRUE
    /\ UNCHANGED <<max_reviews, rv_path, rv_in>>
    /\ UNCHANGED <<scrapeVars, searchVars, shopeeVars, enrichVars, batchVars>>

RunScrapeReviewsShopee ==
    /\ rv_path = "shopee" /\ ~rv_done
    /\ rv_out' = ScrapeReviewsShopee(max_reviews, rv_in)
    /\ rv_done' = TRUE
    /\ UNCHANGED <<max_reviews, rv_path, rv_in>>
    /\ UNCHANGED <<scrapeVars, searchVars, shopeeVars, enrichVars, batchVars>>

NextReviews ==
    \/ RunGetReviewsApi
    \/ RunScrapeReviewsTiki
    \/ RunScrapeReviewsShopee

SpecReviews == InitReviews /\ [][NextReviews]_vars

\* ------------------------------------------ ShopeePlaywrightScraper.scrape

ShopeeCandidates == 0..MaxShopeeProducts

\* _check_login_required: whether page.url holds a blocked pattern.
CheckLoginRequired == sh_blocked

\* The product dict after _scrape_product_details, lines 368-414.  detail:
\* "page" when the extraction ran to its end, "empty" when the handler at
\* line 410 emptied description, category and reviews.  blocked: whether the
\* page was classified as blocked while the extraction ran.  prompts: the
\* calls of _handle_login made for the item.
ShopeeItem(i, detail, blocked, prompts) ==
    [idx |-> i, detail |-> detail, blocked |-> blocked, prompts |-> prompts]

\* _save_data: open(self.output_file, 'w') then json.dump(self.products_data)
ShopeeSaveData(file, data) == <<data>>

\* _save_cookies, lines 48-54, for the flag "not saved since the challenge":
\* context.storage_state(path=...) writes the session, or raises and the
\* except logs it.
ShopeeSaveCookies(unsaved, ok) == IF ok THEN FALSE ELSE unsaved

\* scrape() is called: browser, context and page are created (lines 150-230).
ShopeeScrape ==
    /\ sh_pc = "idle"
    /\ sh_pc' = "search"
    /\ UNCHANGED <<sh_where, sh_blocked, sh_products, retry_count, sh_idx,
                   sh_prompts, sh_products_data, sh_output_file, sh_returned>>
    /\ UNCHANGED <<sh_checked, sh_unsaved>>
    /\ UNCHANGED <<scrapeVars, searchVars, reviewVars, enrichVars, batchVars>>

\* _search_products, lines 288-366, as called at line 235.  blocked: the
\* navigation ended on a verification or login URL, and [] is returned;
\* raises: page.goto raised twice (lines 291-294), which leaves scrape()
\* through its finally; n: the cards with a link otherwise.
ShopeeSearch(n, blocked, raises) ==
    /\ sh_pc = "search"
    /\ (blocked \/ raises) => n = 0
    /\ raises => ~blocked
    /\ sh_blocked' = blocked
    /\ sh_products' = n
    /\ IF raises
         THEN /\ sh_pc' = "done"
              /\ sh_returned' = [kind |-> "raised", value |-> << >>]
         ELSE /\ sh_pc' = "while"
              /\ UNCHANGED sh_returned
    /\ UNCHANGED <<sh_where, retry_count, sh_idx, sh_prompts,
                   sh_products_data, sh_output_file>>
    /\ sh_checked' = ~raises         \* the check of line 304
    /\ UNCHANGED sh_unsaved
    /\ UNCHANGED <<scrapeVars, searchVars, reviewVars, enrichVars, batchVars>>

\* Line 241: "while await self._check_login_required(page) and
\* retry_count < max_retries": into _handle_login, up to its input().
ShopeeWhile ==
    /\ sh_pc = "while"
    /\ IF CheckLoginRequired /\ retry_count < sh_max_retries
         THEN /\ sh_pc' = "input"
              /\ sh_where' = "discovery"
         ELSE /\ sh_pc' = "after"
              /\ UNCHANGED sh_where
    /\ UNCHANGED <<sh_blocked, sh_products, retry_count, sh_idx, sh_prompts,
                   sh_products_data, sh_output_file, sh_returned>>
    /\ sh_checked' = TRUE
    /\ UNCHANGED sh_unsaved
    /\ UNCHANGED <<scrapeVars, searchVars, reviewVars, enrichVars, batchVars>>

\* Lines 242-252: after _handle_login, the search is run again and the loop's
\* two exits are tested.
ShopeeSearchAgain(n, blocked, raises) ==
    /\ sh_pc = "research"
    /\ (blocked \/ raises) => n = 0
    /\ raises => ~blocked
    /\ sh_blocked' = blocked
    /\ sh_products' = n
    /\ IF raises
         THEN /\ sh_pc' = "done"
              /\ sh_returned' = [kind |-> "raised", value |-> << >>]
              /\ UNCHANGED retry_count
         ELSE /\ retry_count' = retry_count + 1
              /\ IF ~blocked
                   THEN /\ sh_pc' = "after"            \* break
                        /\ UNCHANGED sh_returned
                   ELSE IF retry_count' >= sh_max_retries
                   THEN /\ sh_pc' = "done"             \* return
                        /\ sh_returned' = [kind |-> "None", value |-> << >>]
                   ELSE /\ sh_pc' = "while"
                        /\ UNCHANGED sh_returned
    /\ UNCHANGED <<sh_where, sh_idx, sh_prompts, sh_products_data,
                   sh_output_file>>
    /\ sh_checked' = ~raises
    /\ sh_unsaved' = IF ~raises /\ ~blocked THEN TRUE ELSE sh_unsaved
    /\ UNCHANGED <<scrapeVars, searchVars, reviewVars, enrichVars, batchVars>>

\* Lines 254-261: "if not products: return", else the session is saved and
\* the loop over the products starts.
ShopeeAfterLoop(saveOk) ==
    /\ sh_pc = "after"
    /\ IF sh_products = 0
         THEN /\ sh_pc' = "done"
              /\ sh_returned' = [kind |-> "None", value |-> << >>]
              /\ UNCHANGED <<sh_idx, sh_unsaved>>
         ELSE /\ sh_pc' = "item"
              /\ sh_idx' = 1
              /\ sh_unsaved' = ShopeeSaveCookies(sh_unsaved, saveOk)
              /\ UNCHANGED sh_returned
    /\ UNCHANGED sh_checked
    /\ UNCHANGED <<sh_where, sh_blocked, sh_products, retry_count, sh_prompts,
                   sh_products_data, sh_output_file>>
    /\ UNCHANGED <<scrapeVars, searchVars, reviewVars, enrichVars, batchVars>>

\* Lines 269-276: _scrape_product_details returned, the product is appended,
\* every 5th index the data and the session are saved, and the loop goes to
\* the next product.
ShopeeItemDone(item) ==
    LET data == Append(sh_products_data, item) IN
    /\ sh_products_data' = data
    /\ sh_output_file' = IF sh_idx % sh_SaveEvery = 0
                           THEN ShopeeSaveData(sh_output_file, data)
                           ELSE sh_output_file
    /\ \E saveOk \in BOOLEAN :
         sh_unsaved' = IF sh_idx % sh_SaveEvery = 0
                         THEN ShopeeSaveCookies(sh_unsaved, saveOk)
                         ELSE sh_unsaved
    /\ sh_idx' = sh_idx + 1
    /\ sh_prompts' = 0
    /\ sh_pc' = "item"

\* Lines 371-378: page.goto of the product link and the challenge check.
\* raises: the navigation raised, the handler at line 410 empties the item.
ShopeeGoto(blocked, raises) ==
    /\ sh_pc = "item"
    /\ sh_idx <= sh_products
    /\ raises => ~blocked
    /\ IF raises
         THEN /\ ShopeeItemDone(ShopeeItem(sh_idx, "empty", FALSE, 0))
              /\ UNCHANGED <<sh_blocked, sh_where>>
         ELSE /\ sh_blocked' = blocked
              /\ IF blocked                 \* "if await _check_login_required"
                   THEN /\ sh_pc' = "input"
                        /\ sh_where' = "item"
                        /\ sh_prompts' = sh_prompts + 1
                   ELSE /\ sh_pc' = "extract"
                        /\ UNCHANGED <<sh_where, sh_prompts>>
              /\ UNCHANGED <<sh_idx, sh_products_data, sh_output_file,
                             sh_unsaved>>
    /\ sh_checked' = ~raises
    /\ UNCHANGED <<sh_products, retry_count, sh_returned>>
    /\ UNCHANGED <<scrapeVars, searchVars, reviewVars, enrichVars, batchVars>>

\* _handle_login, line 145: input() returns, the operator pressed Enter.
ShopeeConfirm ==
    /\ sh_pc = "input"
    /\ sh_pc' = IF sh_where = "discovery" THEN "research" ELSE "reload"
    /\ UNCHANGED <<sh_where, sh_blocked, sh_products, retry_count, sh_idx,
                   sh_prompts, sh_products_data, sh_output_file, sh_returned>>
    /\ UNCHANGED <<sh_checked, sh_unsaved>>
    /\ UNCHANGED <<scrapeVars, searchVars, reviewVars, enrichVars, batchVars>>

\* _handle_login, line 145: input() raises EOFError, the console is closed.
\* In discovery nothing catches it; in _scrape_product_details the handler at
\* line 410 does.
ShopeeInputEOF ==
    /\ sh_pc = "input"
    /\ IF sh_where = "discovery"
         THEN /\ sh_pc' = "done"
              /\ sh_returned' = [kind |-> "raised", value |-> << >>]
              /\ UNCHANGED <<sh_idx, sh_prompts, sh_products_data,
                             sh_output_file, sh_unsaved>>
         ELSE /\ ShopeeItemDone(ShopeeItem(sh_idx, "empty", sh_blocked,
                                           sh_prompts))
              /\ UNCHANGED sh_returned
    /\ UNCHANGED sh_checked
    /\ UNCHANGED <<sh_where, sh_blocked, sh_products, retry_count>>
    /\ UNCHANGED <<scrapeVars, searchVars, reviewVars, enrichVars, batchVars>>

\* Lines 380-382: the product page is loaded again after _handle_login; the
\* challenge is not checked again.
ShopeeReload(blocked, raises) ==
    /\ sh_pc = "reload"
    /\ raises => ~blocked
    /\ IF raises
         THEN /\ ShopeeItemDone(ShopeeItem(sh_idx, "empty", sh_blocked,
                                           sh_prompts))
              /\ UNCHANGED sh_blocked
         ELSE /\ sh_blocked' = blocked
              /\ sh_pc' = "extract"
              /\ sh_unsaved' = IF ~blocked THEN TRUE ELSE sh_unsaved
              /\ UNCHANGED <<sh_idx, sh_prompts, sh_products_data,
                             sh_output_file>>
    /\ sh_checked' = FALSE
    /\ UNCHANGED <<sh_where, sh_products, retry_count, sh_returned>>
    /\ UNCHANGED <<scrapeVars, searchVars, reviewVars, enrichVars, batchVars>>

\* Lines 384-408: description, category and reviews are read from the page
\* as it is.  ok: no exception reached the handler at line 410.
ShopeeExtract(ok) ==
    /\ sh_pc = "extract"
    /\ ShopeeItemDone(ShopeeItem(sh_idx, IF ok THEN "page" ELSE "empty",
                                 sh_blocked, sh_prompts))
    /\ UNCHANGED <<sh_where, sh_blocked, sh_products, retry_count,
                   sh_returned>>
    /\ UNCHANGED sh_checked
    /\ UNCHANGED <<scrapeVars, searchVars, reviewVars, enrichVars, batchVars>>

\* Lines 280-286: after the loop the data and the session are saved;
\* scrape() has no return statement, its caller gets None.
ShopeeFinish(saveOk) ==
    /\ sh_pc = "item"
    /\ sh_idx > sh_products
    /\ sh_output_file' = ShopeeSaveData(sh_output_file, sh_products_data)
    /\ sh_returned' = [kind |-> "None", value |-> << >>]
    /\ sh_pc' = "done"
    /\ UNCHANGED <<sh_where, sh_blocked, sh_products, retry_count, sh_idx,
                   sh_prompts, sh_products_data>>
    /\ sh_unsaved' = ShopeeSaveCookies(sh_unsaved, saveOk)
    /\ UNCHANGED sh_checked
    /\ UNCHANGED <<scrapeVars, searchVars, reviewVars, enrichVars, batchVars>>

\* The steps the program takes by itself.
ShopeeProgram ==
    \/ ShopeeScrape
    \/ \E n \in ShopeeCandidates, b, r \in BOOLEAN : ShopeeSearch(n, b, r)
    \/ ShopeeWhile
    \/ \E n \in ShopeeCandidates, b, r \in BOOLEAN : ShopeeSearchAgain(n, b, r)
    \/ \E saveOk \in BOOLEAN : ShopeeAfterLoop(saveOk)
    \/ \E b, r \in BOOLEAN : ShopeeGoto(b, r)
    \/ \E b, r \in BOOLEAN : ShopeeReload(b, r)
    \/ \E ok \in BOOLEAN : ShopeeExtract(ok)
    \/ \E saveOk \in BOOLEAN : ShopeeFinish(saveOk)

\* The steps that wait for the operator at the console.
ShopeeOperator ==
    \/ ShopeeConfirm
    \/ ShopeeInputEOF

NextShopee ==
    \/ ShopeeProgram
    \/ ShopeeOperator

InitShopee ==
    /\ max_concurrent = 1
    /\ state_file = "valid"
    /\ ScrapeIdle
    /\ SearchIdle
    /\ ReviewsIdle
    /\ ShopeeIdle
    /\ EnrichIdle
    /\ BatchIdle

SpecShopee == InitShopee /\ [][NextShopee]_vars

\* The event loop runs the one coroutine whenever it can continue; nothing
\* makes the operator answer the prompt.
SpecShopeeLive == SpecShopee /\ WF_vars(ShopeeProgram)

\* ------------------- _scrape_product_details as a function of the sources

\* What the sources answer, the same at every call: whether the detail
\* request gave a body and what it held, the reviews of the API, and for the
\* page whether the extraction raised, whether the description element was
\* found, and the specifications and reviews read.
Sources ==
    [detailsOk : BOOLEAN, data : {"d1", "d2"},
     reviews : {<< >>, <<"r1">>, <<"r1", "r2">>},
     pageRaises : BOOLEAN, descFound : BOOLEAN,
     pageReviews : {<< >>, <<"h1">>}]

\* The dict _get_product_details_api builds from the body, lines 358-393.
Details(data) ==
    [description |-> data, specifications |-> data, brand |-> data]

\* "product['reviews'].extend(reviews)"
ExtendReviews(p, r) ==
    Update(p, [reviews |-> (IF "reviews" \in DOMAIN p THEN p.reviews
                                                     ELSE << >>) \o r])

\* Line 434: "product['reviews'] = reviews if reviews else []"
SetReviews(p, r) == Update(p, [reviews |-> r])

\* Lines 440-478: the fallback block.
ScrapePage(p, src) ==
    IF src.pageRaises
      THEN Update(p, [description |-> "", specifications |-> "[]",
                      reviews |-> << >>])
      ELSE LET q == IF src.descFound
                      THEN Update(p, [description |-> "page"])
                      ELSE p
           IN  Update(q, [specifications |-> "page",
                          reviews |-> src.pageReviews])

\* _scrape_product_details, lines 399-478, on product p with the sources src.
ScrapeProductDetails(p, src) ==
    IF "id" \in DOMAIN p /\ src.detailsOk
      THEN SetReviews(Update(p, Details(src.data)), src.reviews)
      ELSE ScrapePage(p, src)

InitEnrich ==
    /\ max_concurrent = 1
    /\ state_file = "valid"
    /\ ScrapeIdle
    /\ SearchIdle
    /\ ReviewsIdle
    /\ ShopeeIdle
    /\ BatchIdle
    /\ e_product \in {Listing(TRUE), Listing(FALSE)}
    /\ e_source \in Sources
    /\ e_runs = 0
    /\ e_first = e_product

\* _scrape_product_details is run on the product, a first and a second time.
RunEnrich ==
    /\ e_runs < MaxRuns
    /\ e_product' = ScrapeProductDetails(e_product, e_source)
    /\ e_first' = IF e_runs = 0 THEN e_product' ELSE e_first
    /\ e_runs' = e_runs + 1
    /\ UNCHANGED e_source
    /\ UNCHANGED <<scrapeVars, searchVars, reviewVars, shopeeVars, batchVars>>

NextEnrich == RunEnrich

SpecEnrich == InitEnrich /\ [][NextEnrich]_vars

\* --------------------------------------------------- run_batch_scraping

\* The entries all_keywords can hold: a keyword with its category.
KeywordInfos ==
    {[keyword |-> "iphone case", category |-> "phone"],
     [keyword |-> "tai nghe", category |-> "accessory"]}

\* What scraper.scrape() can do for one keyword: raise, return None, or
\* return a list of n products (the empty list when every task failed).
ScrapeOutcomes ==
    [kind : {"raised", "None"}, n : {0}] \cup [kind : {"list"}, n : 0..MaxBatchItems]

\* The products scrape() returned for the keyword at position i.
Scraped(i, n) == [j \in 1..n |-> [from |-> i, item |-> j]]

\* Lines 161-163: the keyword and its category are written into each product.
Tagged(items, kw) ==
    [j \in 1..Len(items) |->
        Update(items[j], [search_keyword |-> kw.keyword,
                          search_category |-> kw.category])]

\* "except Exception: break"
StopAfterFailure(i, last) == last + 1

\* Lines 168-170: "except Exception ... continue", the next keyword.
AfterFailure(i, last) == i + 1

InitBatch ==
    /\ max_concurrent = 1
    /\ state_file = "valid"
    /\ ScrapeIdle
    /\ SearchIdle
    /\ ReviewsIdle
    /\ ShopeeIdle
    /\ EnrichIdle
    /\ all_keywords \in UNION {[1..n -> KeywordInfos] : n \in 0..MaxKeywords}
    /\ b_idx = 1
    /\ b_outcomes = << >>
    /\ all_products = << >>
    /\ b_returned = [kind |-> "running", value |-> << >>]

\* One iteration of "for idx, kw_info in enumerate(all_keywords, 1)", lines
\* 135-174: a new scraper is made for the keyword and scrape() is awaited.
BatchKeyword(out) ==
    /\ b_returned.kind = "running"
    /\ b_idx <= Len(all_keywords)
    /\ b_outcomes' = Append(b_outcomes, [at |-> b_idx, kind |-> out.kind,
                                         n |-> out.n])
    /\ IF out.kind = "raised"
         THEN /\ b_idx' = AfterFailure(b_idx, Len(all_keywords))
              /\ UNCHANGED all_products
         ELSE /\ b_idx' = b_idx + 1
              /\ all_products' =
                   IF out.kind = "list" /\ out.n > 0       \* "if products:"
                     THEN all_products
                            \o Tagged(Scraped(b_idx, out.n), all_keywords[b_idx])
                     ELSE all_products
    /\ UNCHANGED <<all_keywords, b_returned>>
    /\ UNCHANGED <<scrapeVars, searchVars, reviewVars, shopeeVars, enrichVars>>

\* Lines 176-181: after the loop, "return all_products".
BatchReturn ==
    /\ b_returned.kind = "running"
    /\ b_idx > Len(all_keywords)
    /\ b_returned' = [kind |-> "list", value |-> all_products]
    /\ UNCHANGED <<all_keywords, b_idx, b_outcomes, all_products>>
    /\ UNCHANGED <<scrapeVars, searchVars, reviewVars, shopeeVars, enrichVars>>

NextBatch ==
    \/ \E out \in ScrapeOutcomes : BatchKeyword(out)
    \/ BatchReturn

SpecBatch == InitBatch /\ [][NextBatch]_vars

\* ------------------------------------------------------------------ claims

\* The tasks past the limiter: holding a slot, in their delay or fetches.
Active == {t \in Tasks : tpc[t] \in {"delay", "api", "page"}}

\* C1: when scrape has ended, the accumulated dataset holds exactly one item
\* per discovered candidate: as many items as candidates, every candidate
\* present, none twice.
C1_OneItemPerCandidate ==
    pc = "done" =>
        /\ Len(products_data) = Len(products)
        /\ \A t \in Tasks :
             Cardinality({i \in 1..Len(products_data) :
                            products_data[i].idx = t}) = 1

\* C2: at most one task at a time is driving the shared page.
C2_PageExclusive ==
    Cardinality({t \in Tasks : tpc[t] = "page"}) <= 1

\* C3: at most max_concurrent tasks are past the limiter, the free slots of
\* the semaphore, once scrape() has created it, are what the active tasks
\* leave, and every other unfinished task is waiting.
C3_AtMostNActive ==
    /\ Cardinality(Active) <= max_concurrent
    /\ pc # "launch" => semaphore = max_concurrent - Cardinality(Active)
    /\ \A t \in Tasks \ Active : tpc[t] \in {"wait", "finished", "consumed"}

\* C3 witness: the limiter is full at width 2 and a task is kept waiting.
C3_Witness ==
    /\ max_concurrent = 2
    /\ Cardinality(Active) = 2
    /\ semaphore = 0
    /\ \E t \in Tasks : tpc[t] = "wait"

\* C4: the checkpoint file never holds more than one snapshot, and once the
\* run has written its final checkpoint the file is exactly the accumulated
\* sequence.
C4_FileIsOneSnapshot ==
    /\ Len(output_file) <= 1
    /\ (pc = "done" /\ returned.kind = "list") => output_file = <<products_data>>

\* C6: a task that falls back to the rendered path after its structured
\* detail fetch failed has attempted that fetch max_retries times.
C6_DetailFetchRetried ==
    \A t \in fellBack :
        details[t] = "None" => detailReqs[t] = max_retries

C5_RetryBound ==
    /\ requests <= max_retries
    /\ (apc = "returned"
          /\ \A i \in 1..Len(responses) : responses[i].kind \in {"timeout", "s5xx", "s429", "connerr"})
         => (requests = max_retries /\ found = 0)
    /\ \A i \in 1..Len(responses) :
         responses[i].kind = "ok" =>
             (i = Len(responses) /\ requests = i /\ apc = "returned")

\* C5 witness: three retryable failures, then the empty list.
C5_Witness ==
    /\ apc = "returned"
    /\ Len(responses) = max_retries
    /\ \A i \in 1..Len(responses) : responses[i].kind \in {"timeout", "s5xx", "s429", "connerr"}
    /\ requests = max_retries
    /\ found = 0

\* C7: when the first response is non-retryable (a 4xx other than 429, or a
\* malformed body), no second request is made
\* and no backoff delay is taken.
C7_NonRetryableFailsAtOnce ==
    (Len(responses) >= 1 /\ responses[1].kind \in {"s4xx", "malformed"})
        => (requests = 1 /\ sleeps = << >>)

\* C8: the i-th delay taken, the one before attempt k = i + 1, is
\* 1 * 2^(k-2) seconds; a delay is taken between two attempts only, never
\* after the last one.
C8_BackoffDelays ==
    /\ \A i \in 1..Len(sleeps) : sleeps[i] = 2 ^ ((i + 1) - 2)
    /\ Len(sleeps) <= max_retries - 1
    /\ apc \in {"request", "awaiting"} => Len(sleeps) = Min(attempt, max_retries - 1)
    /\ apc = "sleep" => Len(sleeps) = attempt + 1
    /\ (apc = "returned" /\ Len(responses) = max_retries) => Len(sleeps) = max_retries - 1

\* C8 witness: all attempts used, the delays were 1 then 2.
C8_Witness ==
    /\ apc = "returned"
    /\ requests = max_retries
    /\ sleeps = <<1, 2>>

\* C9: whatever collector ran and whatever the source offered, the review
\* list returned is no longer than max_reviews.
C9_ReviewsAtMostMax ==
    rv_done => Len(rv_out) <= max_reviews

\* C9 witness: the API collector fetched several pages, every page offered
\* more than a page of reviews, and the list stopped at max_reviews.
C9_Witness ==
    /\ rv_done /\ rv_path = "api"
    /\ PagesNeeded(max_reviews) > 1
    /\ \A p \in 1..Len(rv_in) :
         rv_in[p].kind = "ok" /\ Len(rv_in[p].items) = ReviewPageSize + 1
    /\ Len(rv_out) = max_reviews

C12_DiscoveryFailureIffBothEmpty ==
    discovery.ran =>
        /\ (pc = "done" /\ returned.kind = "None")
             <=> (discovery.api = 0 /\ discovery.html = 0 /\ ~discovery.raised)
        /\ (pc = "done" /\ returned.kind \in {"None", "raised"})
             <=> (discovery.api = 0 /\ discovery.html = 0)
        /\ returned.kind \in {"None", "raised"} =>
             (products = << >> /\ products_data = << >> /\ output_file = << >>)
        /\ discovery.htmlTried <=> discovery.api = 0
        /\ Len(products) = IF discovery.htmlTried THEN discovery.html
                                                  ELSE discovery.api

\* C12 witness: the API search gave nothing, the HTML search ran and gave
\* nothing, and scrape() returned None.
C12_Witness ==
    /\ pc = "done"
    /\ returned.kind = "None"
    /\ discovery.api = 0
    /\ discovery.htmlTried
    /\ discovery.html = 0

\* C13: when the Shopee scrape() has gone through all its products, the file
\* holds every accumulated item and scrape() has returned the accumulated
\* sequence, whose items are in the order the products were done.
C13_FinalCheckpointThenReturn ==
    (sh_pc = "done" /\ sh_products > 0 /\ sh_idx > sh_products) =>
        /\ sh_output_file = <<sh_products_data>>
        /\ \A i \in 1..Len(sh_products_data) : sh_products_data[i].idx = i
        /\ sh_returned.kind = "list"
        /\ sh_returned.value = sh_products_data

\* C14: the file of a run starts empty and every _save_data appends one
\* snapshot, so its snapshots are the run's checkpoint writes in order: none
\* holds fewer items than an earlier one, and each earlier one is a prefix of
\* every later one.
C14_CheckpointsNeverShrink ==
    \A i, j \in 1..Len(output_file) :
        i <= j =>
            /\ Len(output_file[i]) <= Len(output_file[j])
            /\ output_file[i] = SubSeq(output_file[j], 1, Len(output_file[i]))

\* C14 witness: a periodic checkpoint of 5 items was followed by the final
\* checkpoint.
C14_Witness ==
    /\ pc = "done"
    /\ Len(output_file) = 2
    /\ Len(output_file[1]) = SaveEvery
    /\ Len(output_file[2]) >= SaveEvery

\* C15: a candidate whose task is over and for which neither the API merge
\* nor the page extraction gave anything is in the dataset, with detail and
\* reviews empty.
C15_FailedCandidateStillAppended ==
    \A t \in Tasks :
        (tpc[t] = "consumed" /\ products[t].detail \notin {"api", "html"}) =>
            \E i \in 1..Len(products_data) :
                /\ products_data[i].idx = t
                /\ products_data[i].detail = "empty"
                /\ products_data[i].reviews = "empty"

\* C16: every item of the dataset has a status, succeeded or degraded, and a
\* degraded item has a failure reason.
C16_ItemsCarryStatus ==
    \A i \in 1..Len(products_data) :
        /\ "status" \in DOMAIN products_data[i]
        /\ products_data[i].status \in {"succeeded", "degraded"}
        /\ products_data[i].status = "degraded" =>
             "reason" \in DOMAIN products_data[i]

\* C17: a task that ended on an exception, or whose fetches failed, does not
\* stop the run: while scrape() is in its loop some step can always be taken,
\* every task that returned its product and was consumed is in the dataset,
\* and a run that had candidates ends only after every task was consumed,
\* with the final checkpoint written and the dataset returned.
C17_FailureNeverAborts ==
    /\ pc = "enrich" => ENABLED Next
    /\ \A t \in Tasks :
         (tpc[t] = "consumed" /\ ret[t] = "product") =>
             \E i \in 1..Len(products_data) : products_data[i].idx = t
    /\ (pc = "done" /\ products # << >>) =>
         /\ \A t \in Tasks : tpc[t] = "consumed"
         /\ returned.kind = "list"
         /\ Len(output_file) >= 1
         /\ output_file[Len(output_file)] = products_data

\* C17 witness: a finished run in which one task ended on an exception and
\* another one's detail fetch failed, with a third item enriched by the API.
C17_Witness ==
    /\ pc = "done"
    /\ returned.kind = "list"
    /\ \E t, u \in Tasks :
         /\ ret[t] = "None"
         /\ u # t
         /\ products[u].detail = "api"
         /\ \E i \in 1..Len(products_data) : products_data[i].idx = u

\* C18: whenever a product's challenge prompt is waiting for the operator,
\* the wait ends by itself and the run goes on to its end, with that product
\* in the persisted dataset.
C18_ChallengeWaitEnds ==
    (sh_pc = "input" /\ sh_where = "item")
        ~> (sh_pc = "done" /\ sh_output_file = <<sh_products_data>>)

\* C19: the extraction never runs on a page classified as blocked, no item
\* extracted from the page was extracted while it was blocked, and no item
\* has had more than 3 challenge resolutions.
C19_NeverExtractBlocked ==
    /\ sh_pc = "extract" => ~sh_blocked
    /\ \A i \in 1..Len(sh_products_data) :
         /\ sh_products_data[i].detail = "page" => ~sh_products_data[i].blocked
         /\ sh_products_data[i].prompts <= sh_max_retries

\* C20: when scrape() was cancelled during enrichment, the last snapshot
\* written to the file holds every item accumulated until then.
C20_CancelledRunIsCheckpointed ==
    returned.kind = "cancelled" =>
        /\ Len(output_file) >= 1
        /\ output_file[Len(output_file)] = products_data

\* C21: whatever the width and the number of candidates, once the enrichment
\* has started every task is admitted, finishes and is consumed, and scrape()
\* writes its final checkpoint and returns the dataset.
C21_RunTerminates ==
    (pc = "enrich")
        ~> (/\ pc = "done"
            /\ returned.kind = "list"
            /\ \A t \in Tasks : tpc[t] = "consumed"
            /\ Len(output_file) >= 1
            /\ output_file[Len(output_file)] = products_data)

\* C21 witness: a run of width 2 with more candidates than slots has
\* returned, every task consumed.
C21_Witness ==
    /\ pc = "done"
    /\ returned.kind = "list"
    /\ max_concurrent = 2
    /\ Len(products) > max_concurrent
    /\ \A t \in Tasks : tpc[t] = "consumed"

C23_SecondRunChangesNothing ==
    e_runs = MaxRuns => e_product = e_first

\* A product that the API enriched with details and two reviews has been
\* enriched a second time.
C23_Witness ==
    /\ e_runs = MaxRuns
    /\ "id" \in DOMAIN e_product
    /\ e_source.detailsOk
    /\ e_source.reviews = <<"r1", "r2">>
    /\ e_product.reviews = <<"r1", "r2">>
    /\ e_product.specifications = e_source.data


\* C24: the list discovery yields is never longer than max_products, from
\* the search API and from the search page, however many items the source
\* answers with.
C24_AtMostMaxProducts ==
    /\ apc = "returned" => found <= MaxProducts
    /\ \A i \in 1..Len(responses) :
         (apc = "returned" /\ responses[i].kind = "ok")
             => found <= responses[i].items
    /\ page_items.found <= MaxProducts
    /\ page_items.found <= page_items.items

\* C24 witness: the API gave nothing, the search page showed more items than
\* max_products, all with a link, and max_products candidates came back.
C24_Witness ==
    /\ apc = "returned"
    /\ found = 0
    /\ page_items.kind = "returned"
    /\ page_items.items = MaxProducts + 1
    /\ page_items.found = MaxProducts


\* C25: whenever an extraction from a rendered page starts, the challenge
\* check has looked at the page since the last navigation.
C25_ExtractionAfterCheck ==
    sh_pc = "extract" => sh_checked

\* C26: once a challenge was passed, the session is saved before anything
\* is extracted from the page and before the enrichment of the next product
\* starts.
C26_SessionSavedAfterChallenge ==
    (\/ sh_pc = "extract"
     \/ (sh_pc = "item" /\ sh_idx <= sh_products))
        => ~sh_unsaved


\* C27: a stored session that cannot be restored does not end the run: when
\* scrape() has ended after launching the browser with such a file, the
\* discovery was performed.
C27_UnreadableSessionIsNotFatal ==
    (state_file = "corrupt" /\ pc = "done" /\ browser # "none")
        => discovery.ran


\* C28: the slots held are those of the tasks inside "async with
\* self.semaphore", whichever way the others left it (API success, page
\* fallback, exception turned into None, cancellation); once every task has
\* ended no slot is held and the limiter admits max_concurrent tasks again.
C28_SlotsReleasedOnce ==
    /\ pc # "launch" => semaphore = max_concurrent - Cardinality(Active)
    /\ (pc = "done"
          /\ \A t \in Tasks : tpc[t] \in {"finished", "consumed", "cancelled"})
         => semaphore = max_concurrent

\* C28 witness: scrape() was cancelled at width 2 with both slots held, one
\* by a task in the page fallback, one by a task awaiting the API, while a
\* third task waited; all were ended and both slots are free.
C28_Witness ==
    /\ returned.kind = "cancelled"
    /\ max_concurrent = 2
    /\ semaphore = 2
    /\ \E t, u, w \in Tasks :
         /\ t # u
         /\ tpc[t] = "cancelled" /\ t \in fellBack
         /\ tpc[u] = "cancelled" /\ detailReqs[u] = 1 /\ u \notin fellBack
         /\ tpc[w] = "cancelled" /\ detailReqs[w] = 0 /\ w \notin fellBack


RECURSIVE ExpectedProducts(_)
ExpectedProducts(i) ==
    IF i = 0
      THEN << >>
      ELSE ExpectedProducts(i - 1)
             \o (IF b_outcomes[i].kind = "list"
                   THEN [j \in 1..b_outcomes[i].n |->
                            [from |-> i, item |-> j,
                             search_keyword |-> all_keywords[i].keyword,
                             search_category |-> all_keywords[i].category]]
                   ELSE << >>)

\* C30: the batch tries the keywords in list order, a keyword whose scrape()
\* raises or returns nothing is followed by the next one, and the list
\* returned is the concatenation, in keyword order, of what the successful
\* keywords returned, each product tagged with its keyword and category.
C30_BatchConcatenatesInOrder ==
    /\ \A i \in 1..Len(b_outcomes) : b_outcomes[i].at = i
    /\ all_products = ExpectedProducts(Len(b_outcomes))
    /\ b_returned.kind = "list" =>
         /\ Len(b_outcomes) = Len(all_keywords)
         /\ b_returned.value = ExpectedProducts(Len(all_keywords))

\* C30 witness: of three keywords the first gave one product, the second
\* raised, the third gave two, and the batch returned the three products.
C30_Witness ==
    /\ b_returned.kind = "list"
    /\ Len(all_keywords) = MaxKeywords
    /\ all_keywords[1] # all_keywords[MaxKeywords]
    /\ b_outcomes[1].kind = "list" /\ b_outcomes[1].n = 1
    /\ b_outcomes[2].kind = "raised"
    /\ b_outcomes[MaxKeywords].kind = "list" /\ b_outcomes[MaxKeywords].n = 2
    /\ Len(b_returned.value) = 3
    /\ b_returned.value[3].search_keyword = all_keywords[MaxKeywords].keyword

====
